---------------------------- MODULE Spec2Model ----------------------------
(***************************************************************************)
(* Model of src/pages/Index.tsx: the Index page (isActive, emotionHistory, *)
(* students) and the EmotionDetector component it renders (isLoading,      *)
(* classifier, intervalRef, studentIdsRef, the tracking effect and the     *)
(* mount effect).                                                          *)
(*                                                                         *)
(* Execution model.  JavaScript handlers run to completion, and React      *)
(* batches the state updates a handler queues and commits them in one      *)
(* render; the effects whose dependencies changed are then cleaned up and  *)
(* re-run.  Every action below is one handler together with the render and *)
(* the effect phase it causes.  Within an action the queued updates are    *)
(* applied one by one (ApplyUpdates), as React's update queue does.        *)
(*                                                                         *)
(* handleStudentsDetected is re-created by every render of Index, so the   *)
(* dependency list [isActive, isLoading, onStudentsDetected] of the        *)
(* tracking effect differs after every render of Index.  The `toast`       *)
(* dependency of the mount effect is a module-level function of the toast  *)
(* hook, so the mount effect's cleanup runs at unmount only.               *)
(***************************************************************************)
EXTENDS Integers, Sequences, FiniteSets, TLC

VARIABLES
    isActive,        \* Index: useState(false)
    emotionHistory,  \* Index: useState<EmotionData[]>([])
    students,        \* Index: useState<StudentData[]>([])
    isLoading,       \* EmotionDetector: useState(true)
    classifier,      \* EmotionDetector: useState<any>(null)
    intervalRef,     \* EmotionDetector: intervalRef.current
    studentIdsRef,   \* EmotionDetector: studentIdsRef.current
    timers,          \* the browser's live interval timers
    hasCleanup,      \* the tracking effect's last run returned its cleanup
    mounted,         \* the page is mounted
    now,             \* Date.now(), in ms since the page was mounted
    lastSeenAt       \* id -> the lastSeen of the last record pushed with it

vars == <<isActive, emotionHistory, students, isLoading, classifier,
          intervalRef, studentIdsRef, timers, hasCleanup, mounted, now,
          lastSeenAt>>

--------------------------------------------------------------------------
(* Bounds and constants *)

\* Number of detection ticks explored.
MaxTicks == 3

\* Number of detection ticks explored when every detection is the same.
MaxTicksLong == 4

\* The timeout of the specification's identity tracker, in ms; the source
\* has none.  Used only to state the claims about the timeout.
TimeoutMs == 3000

\* setInterval(detectStudents, 2000)
IntervalMs == 2000

\* numStudents = Math.floor(Math.random() * 3) + 1
MaxStudents == 3

\* intervalRef.current before the first setInterval (undefined)
NoTimer == 0

Box1 == [x |-> 10, y |-> 10, width |-> 150, height |-> 180]
Box2 == [x |-> 300, y |-> 120, width |-> 200, height |-> 240]

\* const emotions: EmotionType[]
Emotions == {"happy", "neutral", "sad", "angry", "surprised", "fearful", "disgust"}

\* emotionToEngagement of @/types/emotion
emotionToEngagement(e) ==
    IF e \in {"happy", "neutral", "surprised"} THEN "Attentive" ELSE "Distracted"

\* The simulated detections one loop iteration can draw: an emotion of the
\* weighted table, a confidence in [0.7, 1) (in percent) and a box.
Detections ==
    { [emotion |-> "happy", confidence |-> 90, box |-> Box1],
      [emotion |-> "sad",   confidence |-> 75, box |-> Box2] }

\* The batches one tick can draw: 1..MaxStudents detections.
Batches == UNION { [1..n -> Detections] : n \in 1..MaxStudents }

\* The batches whose detections all draw the same emotion and box.
SameBatches ==
    UNION { [1..n -> {[emotion |-> "happy", confidence |-> 90, box |-> Box1]}] :
            n \in 1..MaxStudents }

--------------------------------------------------------------------------
(* detectStudents *)

\* `student-${i + 1}` with i counted from 0; here i is counted from 1.
StudentId(i) == <<"student", i>>

StudentName(i) == <<"Student", i>>

AllIds == { StudentId(i) : i \in 1..MaxStudents }

\* students.push({...}) of loop iteration i
StudentOf(i, d, t) ==
    [ id |-> StudentId(i),
      name |-> StudentName(i),
      currentEmotion |-> d.emotion,
      engagement |-> emotionToEngagement(d.emotion),
      confidence |-> d.confidence,
      boundingBox |-> d.box,
      lastSeen |-> t,
      history |-> << >> ]

\* The array detectStudents hands to onStudentsDetected.
detectStudents(dets, t) == [ i \in 1..Len(dets) |-> StudentOf(i, dets[i], t) ]

IdsOf(batch) == { batch[i].id : i \in 1..Len(batch) }

--------------------------------------------------------------------------
(* handleStudentsDetected and React's update queue *)

\* const emotionData: EmotionData = {...}
EmotionDataOf(student, t) ==
    [ emotion |-> student.currentEmotion,
      confidence |-> student.confidence,
      engagement |-> student.engagement,
      timestamp |-> t,
      boundingBox |-> student.boundingBox ]

\* Faulty variant: setEmotionHistory([...emotionHistory, emotionData]), which appends
\* to the array of the render the handler was created in.
AppendSampleStale(prev, rendered, sample) == Append(rendered, sample)

\* setEmotionHistory(prev => [...prev, emotionData])
AppendSample(prev, rendered, sample) == Append(prev, sample)

\* Faulty variant: only the first detected student is logged.
handleStudentsDetectedFirstOnly(detectedStudents, t) ==
    << [op |-> "setStudents", value |-> detectedStudents],
       [op |-> "setEmotionHistory",
        value |-> EmotionDataOf(detectedStudents[1], t)] >>

\* The updates handleStudentsDetected queues, in call order: setStudents,
\* then one setEmotionHistory per detected student.
handleStudentsDetected(detectedStudents, t) ==
    << [op |-> "setStudents", value |-> detectedStudents] >>
    \o [ i \in 1..Len(detectedStudents) |->
           [op |-> "setEmotionHistory",
            value |-> EmotionDataOf(detectedStudents[i], t)] ]

\* One queued update applied to the state being rendered; `rendered` is the
\* state of the render whose closure queued the update.
ApplyUpdate(st, rendered, u) ==
    IF u.op = "setStudents"
    THEN [st EXCEPT !.students = u.value]
    ELSE [st EXCEPT !.emotionHistory =
              AppendSample(st.emotionHistory, rendered.emotionHistory, u.value)]

RECURSIVE ApplyUpdates(_, _, _)
ApplyUpdates(st, rendered, queue) ==
    IF queue = << >> THEN st
    ELSE ApplyUpdates(ApplyUpdate(st, rendered, Head(queue)), rendered, Tail(queue))

--------------------------------------------------------------------------
(* The tracking effect *)

\* Faulty variant: the isLoading test is missing from the guard.
EffectGuardIgnoresLoading(active, loading) == active

\* Faulty variant: the isActive test is missing from the guard.
EffectGuardIgnoresActive(active, loading) == ~loading

\* if (!isActive || isLoading || !videoRef.current || ...) return;
\* the three element refs are set whenever the component is mounted.
EffectGuard(active, loading) == active /\ ~loading

\* Faulty variant: the effect returns a cleanup that leaves the interval running.
ClearIntervalRefNoClear(ref, tms) == tms

\* if (intervalRef.current) { clearInterval(intervalRef.current); }
ClearIntervalRef(ref, tms) == IF ref # NoTimer THEN tms \ {ref} ELSE tms

\* The id setInterval returns: one no live timer has and that differs from
\* the id intervalRef still holds.
FreshTimerId(ref, tms) ==
    CHOOSE i \in 1..(Cardinality(tms) + 2) : i \notin tms /\ i # ref

\* Faulty variant: the effect creates an interval only when intervalRef is unset.
RunEffectOnlyWhenUnset(active, loading, ref, tms) ==
    IF EffectGuard(active, loading) /\ ref = NoTimer
    THEN [ intervalRef |-> FreshTimerId(ref, tms),
           timers |-> tms \cup {FreshTimerId(ref, tms)},
           hasCleanup |-> TRUE ]
    ELSE [ intervalRef |-> ref, timers |-> tms,
           hasCleanup |-> EffectGuard(active, loading) ]

\* The body of the tracking effect: the guard, then
\* intervalRef.current = setInterval(detectStudents, 2000) and the cleanup.
RunEffect(active, loading, ref, tms) ==
    IF EffectGuard(active, loading)
    THEN [ intervalRef |-> FreshTimerId(ref, tms),
           timers |-> tms \cup {FreshTimerId(ref, tms)},
           hasCleanup |-> TRUE ]
    ELSE [ intervalRef |-> ref, timers |-> tms, hasCleanup |-> FALSE ]

\* A render that changed the effect's dependencies: the previous run's
\* cleanup (when it returned one), then the effect body.
TrackingEffect(active, loading) ==
    RunEffect(active, loading, intervalRef,
              IF hasCleanup THEN ClearIntervalRef(intervalRef, timers)
              ELSE timers)

EffectPhase(active, loading) ==
    /\ intervalRef' = TrackingEffect(active, loading).intervalRef
    /\ timers' = TrackingEffect(active, loading).timers
    /\ hasCleanup' = TrackingEffect(active, loading).hasCleanup

--------------------------------------------------------------------------
(* Initial state: mounted, first render done, both effects have run; the   *)
(* tracking effect returned at its guard (isActive is false).              *)

Init ==
    /\ isActive = FALSE
    /\ emotionHistory = << >>
    /\ students = << >>
    /\ isLoading = TRUE
    /\ classifier = "null"
    /\ intervalRef = NoTimer
    /\ studentIdsRef = {}
    /\ timers = {}
    /\ hasCleanup = FALSE
    /\ mounted = TRUE
    /\ now = 0
    /\ lastSeenAt = [ id \in AllIds |-> 0 ]

--------------------------------------------------------------------------
(* Actions *)

\* loadModel resolves (setClassifier, setIsLoading(false)) or throws
\* (setIsLoading(false)); EmotionDetector re-renders with isLoading changed.
LoadModelDone ==
    /\ mounted
    /\ isLoading
    /\ \E ok \in BOOLEAN : classifier' = IF ok THEN "pipe" ELSE classifier
    /\ isLoading' = FALSE
    /\ EffectPhase(isActive, FALSE)
    /\ UNCHANGED <<isActive, emotionHistory, students, studentIdsRef, mounted,
                   now, lastSeenAt>>

\* toggleTracking: setIsActive(!isActive); Index re-renders.
toggleTracking ==
    /\ mounted
    /\ isActive' = ~isActive
    /\ EffectPhase(~isActive, isLoading)
    /\ UNCHANGED <<emotionHistory, students, isLoading, classifier,
                   studentIdsRef, mounted, now, lastSeenAt>>

\* A live interval fires: detectStudents, onStudentsDetected(students), the
\* render of Index with the queued updates, and the effect phase.  The
\* detections are drawn from `batches`, for at most `maxTicks` ticks.
TickFrom(batches, maxTicks) ==
    /\ mounted
    /\ timers # {}
    /\ now < maxTicks * IntervalMs
    /\ \E dets \in batches :
         LET t == now + IntervalMs
             batch == detectStudents(dets, t)
             rendered == [students |-> students, emotionHistory |-> emotionHistory]
             st == ApplyUpdates(rendered, rendered, handleStudentsDetected(batch, t))
         IN /\ now' = t
            /\ studentIdsRef' = studentIdsRef \cup IdsOf(batch)
            /\ lastSeenAt' = [ id \in AllIds |->
                                 IF id \in IdsOf(batch) THEN t ELSE lastSeenAt[id] ]
            /\ students' = st.students
            /\ emotionHistory' = st.emotionHistory
    /\ EffectPhase(isActive, isLoading)
    /\ UNCHANGED <<isActive, isLoading, classifier, mounted>>

Tick == TickFrom(Batches, MaxTicks)

\* The same interval, every detection drawing the same emotion and box, over
\* a longer run.
TickSame == TickFrom(SameBatches, MaxTicksLong)

\* The page unmounts: the tracking effect's cleanup (when it returned one)
\* and the mount effect's cleanup, which clears intervalRef.current too.
Unmount ==
    /\ mounted
    /\ mounted' = FALSE
    /\ timers' = ClearIntervalRef(intervalRef,
                    IF hasCleanup THEN ClearIntervalRef(intervalRef, timers)
                    ELSE timers)
    /\ hasCleanup' = FALSE
    /\ UNCHANGED <<isActive, emotionHistory, students, isLoading, classifier,
                   intervalRef, studentIdsRef, now, lastSeenAt>>

Next == LoadModelDone \/ toggleTracking \/ Tick \/ Unmount

Spec == Init /\ [][Next]_vars

NextLong == LoadModelDone \/ toggleTracking \/ TickSame \/ Unmount

LongSpec == Init /\ [][NextLong]_vars

\* A live interval fires once its period has elapsed.
LiveSpec == Init /\ [][NextLong]_vars /\ WF_vars(TickSame)

--------------------------------------------------------------------------
(* Properties *)

\* Number of ticks applied so far.
tickCount == now \div IntervalMs

\* The fields a log sample copies from a subject record.
SampleView(e) ==
    [ emotion |-> e.emotion, confidence |-> e.confidence,
      engagement |-> e.engagement, boundingBox |-> e.boundingBox ]

StudentView(s) ==
    [ emotion |-> s.currentEmotion, confidence |-> s.confidence,
      engagement |-> s.engagement, boundingBox |-> s.boundingBox ]

\* The record carries its current fields.
HasCurrent(s) ==
    {"currentEmotion", "engagement", "confidence", "boundingBox"} \subseteq DOMAIN s

\* Exactly one record of the snapshot has this box.
OnlyOneAt(snapshot, box) ==
    Cardinality({ k \in 1..Len(snapshot) : snapshot[k].boundingBox = box }) = 1

\* C1 (as claimed): over two consecutive ticks, a subject whose bounding box
\* has not moved (so it moved by less than any match threshold) keeps its id
\* and its history grows by exactly one sample.
IdentityContinuity ==
    [][ now' # now =>
          \A i \in 1..Len(students) : \A j \in 1..Len(students') :
             ( /\ students'[j].boundingBox = students[i].boundingBox
               /\ OnlyOneAt(students, students[i].boundingBox)
               /\ OnlyOneAt(students', students[i].boundingBox) )
             => /\ students'[j].id = students[i].id
                /\ Len(students'[j].history) = Len(students[i].history) + 1
      ]_vars

\* C2 (as claimed): a subject of the snapshot that no detection of a tick
\* matches (none carries its id, none is at its box) is still in the snapshot
\* after that tick, unchanged, as long as its timeout has not elapsed.
UnmatchedPersist ==
    [][ now' # now =>
          \A i \in 1..Len(students) :
             ( /\ students[i].id \notin IdsOf(students')
               /\ \A j \in 1..Len(students') :
                     students'[j].boundingBox # students[i].boundingBox
               /\ now' - students[i].lastSeen <= TimeoutMs )
             => \E j \in 1..Len(students') : students'[j] = students[i]
      ]_vars

\* C3 (as claimed): an id whose subject was unmatched at the previous tick
\* and by then unseen for longer than the timeout is in no later snapshot:
\* a detection that appears afterwards gets another id.
TimeoutEviction ==
    [][ now' # now =>
          \A id \in studentIdsRef :
             ( /\ id \notin IdsOf(students)
               /\ now - lastSeenAt[id] > TimeoutMs )
             => id \notin IdsOf(students')
      ]_vars

\* C4: a step that pauses or resumes tracking, and every step taken while
\* tracking is paused, leaves the students snapshot, the session log and the
\* clock of applied ticks as they were.
PauseResumeKeepsData ==
    [][ (isActive' # isActive \/ ~isActive) =>
          /\ students' = students
          /\ emotionHistory' = emotionHistory
          /\ now' = now
      ]_vars

\* C4 witness: tracking is paused after samples have been committed.
PausedWithData ==
    /\ mounted /\ ~isActive /\ timers = {}
    /\ Len(emotionHistory) >= 2 /\ students # << >>

\* C5: a tick is applied only from a state in which tracking is active and
\* the model load has finished, it applies one batch (one interval of time,
\* as many samples as the batch has subjects, at most MaxStudents), and no
\* interval is live while tracking is paused or the model is loading.
TicksOnlyWhileActive ==
    [][ /\ now' # now =>
             /\ mounted /\ isActive /\ ~isLoading
             /\ now' = now + IntervalMs
             /\ Len(emotionHistory') = Len(emotionHistory) + Len(students')
             /\ Len(students') \in 1..MaxStudents
        /\ (~isActive' \/ isLoading') => timers' = {}
      ]_vars

\* C5 witness: tracking is active again with a live interval after ticks
\* have been applied.
ActiveAfterTicks ==
    /\ mounted /\ isActive /\ ~isLoading /\ timers # {} /\ tickCount >= 2

\* C6: every step either leaves the session log and the snapshot alone or
\* extends the log by one sample per subject of the new snapshot, in batch
\* order, each copying that subject's emotion, confidence, engagement and
\* bounding box; nothing already logged changes.
LogAppendOnly ==
    [][ \/ emotionHistory' = emotionHistory /\ students' = students
        \/ /\ Len(emotionHistory') = Len(emotionHistory) + Len(students')
           /\ SubSeq(emotionHistory', 1, Len(emotionHistory)) = emotionHistory
           /\ \A i \in 1..Len(students') :
                SampleView(emotionHistory'[Len(emotionHistory) + i])
                   = StudentView(students'[i])
      ]_vars

\* C6 witness: a tick with three subjects was logged after an earlier tick.
ThreeLoggedAfterEarlier ==
    /\ tickCount >= 2 /\ Len(students) = 3 /\ Len(emotionHistory) >= 4

\* C7 (as claimed): every subject's history is non-decreasing in timestamp,
\* its current fields equal those of the last sample of its history, and a
\* subject with an empty history carries no current fields.
CurrentEqualsLastSample ==
    \A i \in 1..Len(students) :
       LET s == students[i] IN
       /\ \A k \in 1..(Len(s.history) - 1) :
             s.history[k].timestamp <= s.history[k + 1].timestamp
       /\ s.history = << >> => ~HasCurrent(s)
       /\ s.history # << >> =>
             SampleView(s.history[Len(s.history)]) = StudentView(s)

\* C8: in every state the snapshot and the log reflect the same ticks: the
\* last Len(students) samples of the log are the samples of the snapshot's
\* subjects, in order.
SnapshotConsistent ==
    /\ Len(emotionHistory) >= Len(students)
    /\ \A i \in 1..Len(students) :
          SampleView(emotionHistory[Len(emotionHistory) - Len(students) + i])
             = StudentView(students[i])

\* C8 witness: the snapshot holds two different subjects after a second tick.
TwoDifferentSubjects ==
    /\ tickCount = 2 /\ Len(students) = 2
    /\ students[1].currentEmotion # students[2].currentEmotion

\* C9: at most one interval is live, it is the one intervalRef holds, and
\* none is live once the page is unmounted.
SingleTimer ==
    /\ Cardinality(timers) <= 1
    /\ timers \subseteq {intervalRef}
    /\ ~mounted => timers = {}

\* C9 witness: the page is unmounted after an interval was torn down and
\* created again.
UnmountedAfterRecreate ==
    /\ ~mounted /\ intervalRef = 2 /\ tickCount >= 1

\* C10 (as claimed): whenever tracking is active and the model load has
\* finished, a further tick is eventually applied or tracking is paused.
SamplingLive ==
    \A n \in 0..(MaxTicksLong - 1) :
       (isActive /\ ~isLoading /\ tickCount = n)
          ~> (tickCount > n \/ ~isActive)

\* C10 (amended): whenever the page is mounted, tracking is active and the
\* model load has finished, a further tick is eventually applied, or
\* tracking is paused, or the page is unmounted.
SamplingLiveWhileMounted ==
    \A n \in 0..(MaxTicksLong - 1) :
       (mounted /\ isActive /\ ~isLoading /\ tickCount = n)
          ~> (tickCount > n \/ ~isActive \/ ~mounted)

\* C10 witness: a fourth tick was applied with tracking still active, each
\* tick having re-created the interval.
FourthTickApplied ==
    /\ mounted /\ isActive /\ tickCount = 4 /\ timers = {intervalRef}

==========================================================================
